---- MODULE Spec2Model ----
(***************************************************************************)
(* Model of the mixitup-translator service: the freshness-gated            *)
(* RemoteResource cache, the pronoun dictionary, the per-user cache with   *)
(* its eviction sweeper, and the request handlers that drive them.         *)
(*                                                                         *)
(* The service runs on one asyncio event loop.  A step of the model is     *)
(* what one task executes between two suspension points (an await that     *)
(* really yields: the HTTP round trip of session.get, the body read of     *)
(* resp.json, the close of the client session, asyncio.sleep).             *)
(* Time is counted in minutes since the process started.                   *)
(***************************************************************************)
EXTENDS Integers, Sequences, FiniteSets, TLC

----------------------------------------------------------------------------
(* Bounds of the model *)

\* the clock is read at most this many minutes after the start
MaxTime == 61
\* clock readings are taken in the first Slack minutes of every hour
Slack == 1
\* number of per-user RemoteResource objects alive at one time
MaxRes == 2

----------------------------------------------------------------------------
(* Program constants, in minutes *)

refresh_min == 1
refresh_max == 60
Pronouns_refresh_max == 360
sleep_interval == 10
\* the class default of last_refreshed, 2020-01-01: far before the start
Epoch == -1000

\* the heap slot of the module-level singleton PRONOUNS
PronId == 1

----------------------------------------------------------------------------
(* Payloads *)

\* RemoteResource.__init__: self.data = {}
EmptyData == << >>
\* the sentinel fetch stores on HTTP 404
E404 == [error |-> 404]
\* "no value" of a task that has returned nothing
NoVal == [none |-> TRUE]
None == "None"
\* Python's None where a definition record is expected (TLC compares a record
\* with records only)
Null == [null |-> TRUE]

example_pronouns ==
    [any      |-> [name |-> "any", subject |-> "Any", object |-> "Any", singular |-> TRUE],
     hehim    |-> [name |-> "hehim", subject |-> "He", object |-> "Him", singular |-> FALSE],
     other    |-> [name |-> "other", subject |-> "Other", object |-> "Other", singular |-> TRUE],
     theythem |-> [name |-> "theythem", subject |-> "They", object |-> "Them", singular |-> FALSE]]

example_user_1 ==
    [channel_id |-> "123456789", channel_login |-> "user1",
     pronoun_id |-> "hehim", alt_pronoun_id |-> "any"]

example_user_2 ==
    [channel_id |-> "2345567890", channel_login |-> "user2",
     pronoun_id |-> "other", alt_pronoun_id |-> None]

\* what the upstream may answer: a status, and for a 2xx a body that parses or not
Statuses == {200, 404, 403, 500}
UserBodies == {example_user_1}
DictBodies == {example_pronouns}
BodiesOf(i) ==
    {[ok |-> FALSE, json |-> NoVal]}
        \cup {[ok |-> TRUE, json |-> j] : j \in (IF i = PronId THEN DictBodies ELSE UserBodies)}

\* what the two arguments of the formatter are drawn from: a user record with
\* any of the known ids and any alt_pronoun_id, or the sentinel; the dictionary
\* of the examples, a smaller one, or a dictionary a 404 has replaced
ConvertIds == {"hehim", "any", "other", "theythem"}
ConvertUsers ==
    {[channel_id |-> "123456789", channel_login |-> "user1",
      pronoun_id |-> p, alt_pronoun_id |-> a] :
        p \in ConvertIds, a \in ConvertIds \cup {None, ""}} \cup {E404}
small_pronouns == [k \in {"hehim", "theythem"} |-> example_pronouns[k]]
ConvertDicts == {example_pronouns, small_pronouns, E404}

\* user names as the routes receive them, and str.lower on them
LookupNames == {"Bob", "bob"}
RefreshNames == {"bob", "amy"}
RawNames == LookupNames \cup RefreshNames
lower(s) == CASE s = "Bob" -> "bob" [] s = "Amy" -> "amy" [] OTHER -> s
Keys == {lower(s) : s \in RawNames}

\* the instants at which the clock is read
Times == {t \in 0..MaxTime : t % refresh_max <= Slack}

----------------------------------------------------------------------------
(* State *)

VARIABLES
    now,      \* datetime.now(tz=utc), minutes since the start
    app,      \* position of lifespan: "starting", "serving", "stopping", "stopped", "failed"
    sweeper,  \* the flush_users task: [pc, wake, cancel]
    heap,     \* the RemoteResource objects: heap[PronId] is PRONOUNS, the rest per-user
              \* objects, Free where the slot holds no object
    users,    \* USERS.users: lowercased name -> heap index, 0 for a missing key
    ops,      \* the coroutines in flight, one record per task slot
    group,    \* the TaskGroup of the GET /user/{user} request: "idle", "running", "aborting"
    response  \* the HTTP response sent by the last step, NoResponse if it sent none

vars == <<now, app, sweeper, heap, users, ops, group, response>>

\* task slots: the warm-up fetch of lifespan, the two tasks of a lookup's
\* TaskGroup, and the fetch of a refresh request
OpIds == {"w", "p", "u", "x"}
GroupOps == {"p", "u"}

\* sent: the call has issued its GET to the upstream
\* recent: the request of a refresh route came in less than refresh_min ago
IdleOp ==
    [pc |-> "idle", force |-> FALSE, obj |-> 0, name |-> "", sent |-> FALSE,
     recent |-> FALSE, val |-> NoVal]

\* the server takes requests once lifespan has yielded; the flush_users task
\* created just before the yield is first in the loop's ready queue, so it has
\* reached its sleep before any request handler runs
Serving == app = "serving" /\ sweeper.pc # "created"

Running(o) == ops[o].pc \in {"new", "net", "json", "closing"}
Finished(o) == ops[o].pc \in {"ret", "err", "cancelled"}

NoResponse ==
    [route |-> "none", key |-> "", sent |-> FALSE, recent |-> FALSE, status |-> 0,
     exc |-> "none", age |-> 0, body |-> NoVal]

----------------------------------------------------------------------------
(* RemoteResource *)

NewPronouns ==
    [url |-> "pronouns", data |-> EmptyData, last_refreshed |-> Epoch,
     refresh_max |-> Pronouns_refresh_max]

NewResource(url) ==
    [url |-> url, data |-> EmptyData, last_refreshed |-> Epoch,
     refresh_max |-> refresh_max]

\* a heap slot that holds no object
Free == [url |-> "", data |-> EmptyData, last_refreshed |-> Epoch, refresh_max |-> 0]
Slots == 1..(1 + MaxRes)
EmptyHeap == [i \in Slots |-> IF i = PronId THEN NewPronouns ELSE Free]

\* reference counting: an object that is neither registered in USERS.users nor
\* held by a coroutine still running is freed
Collect(hp, us, os) ==
    [i \in Slots |->
        IF \/ i = PronId
           \/ \E k \in Keys : us[k] = i
           \/ \E o \in OpIds : os[o].obj = i /\ os[o].pc \in {"net", "json", "closing"}
            THEN hp[i] ELSE Free]

\* _should_refresh in which force overrides the cooldown as well
should_refresh_force(r, force, t) ==
    LET age == t - r.last_refreshed
    IN  IF age > r.refresh_max \/ force THEN [ok |-> TRUE, age |-> age]
        ELSE [ok |-> FALSE, age |-> age]

\* _should_refresh in which staleness alone never makes a call eligible
should_refresh_forced_only(r, force, t) ==
    LET age == t - r.last_refreshed
    IN  IF force /\ age > refresh_min THEN [ok |-> TRUE, age |-> age]
        ELSE [ok |-> FALSE, age |-> age]

\* _should_refresh with the staleness threshold compared by >=
should_refresh_max_ge(r, force, t) ==
    LET age == t - r.last_refreshed
    IN  IF age >= r.refresh_max THEN [ok |-> TRUE, age |-> age]
        ELSE IF force /\ age > refresh_min THEN [ok |-> TRUE, age |-> age]
        ELSE [ok |-> FALSE, age |-> age]

\* _should_refresh with the cooldown compared by >=
should_refresh_ge(r, force, t) ==
    LET age == t - r.last_refreshed
    IN  IF age > r.refresh_max THEN [ok |-> TRUE, age |-> age]
        ELSE IF force /\ age >= refresh_min THEN [ok |-> TRUE, age |-> age]
        ELSE [ok |-> FALSE, age |-> age]

\* _should_refresh: ok = it returned True, otherwise it raised
\* NoRefreshException, whose message carries age
should_refresh(r, force, t) ==
    LET age == t - r.last_refreshed
    IN  IF age > r.refresh_max THEN [ok |-> TRUE, age |-> age]
        ELSE IF force /\ age > refresh_min THEN [ok |-> TRUE, age |-> age]
        ELSE [ok |-> FALSE, age |-> age]

\* fetch whose error path stamps last_refreshed before raising
OnStatus_stamp(r, status, t) ==
    IF status = 404
        THEN [res |-> [r EXCEPT !.data = E404, !.last_refreshed = t], next |-> "return"]
    ELSE IF status >= 400
        THEN [res |-> [r EXCEPT !.last_refreshed = t], next |-> "raise"]
    ELSE [res |-> r, next |-> "json"]

\* fetch, once session.get has answered: the 404 branch, raise_for_status,
\* or on to the await of resp.json()
OnStatus(r, status, t) ==
    IF status = 404
        THEN [res |-> [r EXCEPT !.data = E404, !.last_refreshed = t], next |-> "return"]
    ELSE IF status >= 400
        THEN [res |-> r, next |-> "raise"]
    ELSE [res |-> r, next |-> "json"]

\* fetch that assigns data and forgets to stamp last_refreshed
OnBody_nostamp(r, body, t) ==
    IF ~body.ok
        THEN [res |-> r, next |-> "raise"]
    ELSE [res |-> [r EXCEPT !.data = body.json], next |-> "return"]

\* fetch, once resp.json() has finished: it raised, or data and
\* last_refreshed are assigned with no await between the two
OnBody(r, body, t) ==
    IF ~body.ok
        THEN [res |-> r, next |-> "raise"]
    ELSE [res |-> [r EXCEPT !.data = body.json, !.last_refreshed = t], next |-> "return"]

----------------------------------------------------------------------------
(* Users *)

\* a lookup that takes the entry it finds out of the mapping
lookup_or_create_pop(us, hp, name) ==
    LET key  == lower(name)
        free == {i \in Slots : i # PronId /\ hp[i] = Free}
        new  == CHOOSE i \in free : \A j \in free : i <= j
    IN  IF us[key] # 0
            THEN [users |-> [us EXCEPT ![key] = 0], heap |-> hp, obj |-> us[key]]
        ELSE IF free = {}
            THEN [users |-> us, heap |-> hp, obj |-> 0]
        ELSE [users |-> [us EXCEPT ![key] = new],
              heap  |-> [hp EXCEPT ![new] = NewResource(key)],
              obj   |-> new]

\* fetch_user up to the call of fetch: look the resource up or create and
\* register it
lookup_or_create(us, hp, name) ==
    LET key  == lower(name)
        free == {i \in Slots : i # PronId /\ hp[i] = Free}
        new  == CHOOSE i \in free : \A j \in free : i <= j
    IN  IF us[key] # 0
            THEN [users |-> us, heap |-> hp, obj |-> us[key]]
        ELSE IF free = {}
            THEN [users |-> us, heap |-> hp, obj |-> 0]
        ELSE [users |-> [us EXCEPT ![key] = new],
              heap  |-> [hp EXCEPT ![new] = NewResource(key)],
              obj   |-> new]

\* a pass that also deletes the entries exactly refresh_max old
to_clear_le(us, hp, t) ==
    {k \in Keys : us[k] # 0 /\ hp[us[k]].last_refreshed <= t - refresh_max}

\* flush_users, one pass: the keys it deletes and the mapping it leaves
to_clear(us, hp, t) ==
    {k \in Keys : us[k] # 0 /\ hp[us[k]].last_refreshed < t - refresh_max}

flush_pass(us, hp, t) ==
    [k \in Keys |-> IF k \in to_clear(us, hp, t) THEN 0 ELSE us[k]]

\* a sleep that looks at its timer before it looks at the cancellation
sleep_outcome_timer_first(cancel, t, wake) ==
    IF t >= wake THEN "pass"
    ELSE IF cancel THEN "break"
    ELSE "wait"

\* flush_users at its await of asyncio.sleep(600): CancelledError breaks
\* out of the loop, the timer lets the pass run
sleep_outcome(cancel, t, wake) ==
    IF cancel THEN "break"
    ELSE IF t >= wake THEN "pass"
    ELSE "wait"

\* a test that finds no alt_pronoun_id true
Truthy_never(x) == FALSE

\* the truth value Python gives an alt_pronoun_id: None and "" are false
Truthy(x) == x # None /\ x # ""

\* checks that do not look for the sentinel
convert_failure_no_sentinel(pronouns, user) ==
    IF \/ "pronoun_id" \notin DOMAIN user
       \/ "alt_pronoun_id" \notin DOMAIN user
       \/ user["pronoun_id"] \notin DOMAIN pronouns
       \/ (Truthy(user["alt_pronoun_id"])
               /\ user["alt_pronoun_id"] \notin DOMAIN pronouns)
        THEN [exc |-> "KeyError", status |-> 500, body |-> NoVal]
    ELSE [exc |-> "none", status |-> 200, body |-> NoVal]

\* the checks both formatters make before they build a response
convert_failure(pronouns, user) ==
    IF "error" \in DOMAIN user
        THEN [exc |-> "HTTPException", status |-> 404, body |-> NoVal]
    ELSE IF \/ "pronoun_id" \notin DOMAIN user
            \/ "alt_pronoun_id" \notin DOMAIN user
            \/ user["pronoun_id"] \notin DOMAIN pronouns
            \/ (Truthy(user["alt_pronoun_id"])
                    /\ user["alt_pronoun_id"] \notin DOMAIN pronouns)
        THEN [exc |-> "KeyError", status |-> 500, body |-> NoVal]
    ELSE [exc |-> "none", status |-> 200, body |-> NoVal]

\* response["alt_pronoun"]: the definition of a true alt_pronoun_id, else None
alt_pronoun(pronouns, user) ==
    IF Truthy(user["alt_pronoun_id"]) THEN pronouns[user["alt_pronoun_id"]] ELSE Null

\* a display rule that takes the alternative pronoun before it looks at singular
display_alt_first(pronouns, user) ==
    LET pronoun == pronouns[user["pronoun_id"]]
    IN  IF Truthy(user["alt_pronoun_id"])
            THEN pronoun.subject \o "/" \o alt_pronoun(pronouns, user).subject
        ELSE IF pronoun.singular THEN pronoun.subject
        ELSE pronoun.subject \o "/" \o pronoun.object

\* response["display"]; response["alt_pronoun"] is None or a definition
\* record, which is not empty and therefore true
display(pronouns, user) ==
    LET pronoun == pronouns[user["pronoun_id"]]
    IN  IF pronoun.singular THEN pronoun.subject
        ELSE IF Truthy(user["alt_pronoun_id"])
            THEN pronoun.subject \o "/" \o alt_pronoun(pronouns, user).subject
        ELSE pronoun.subject \o "/" \o pronoun.object

\* an override that looks at singular only
singular_they_no_id(pronouns, user) ==
    pronouns[user["pronoun_id"]].singular

\* the condition of the singular-they override
singular_they(pronouns, user) ==
    pronouns[user["pronoun_id"]].singular \/ user["pronoun_id"] = "theythem"

\* convert_json of main.py, the formatter of the lookup route
convert_json(pronouns, user) ==
    IF convert_failure(pronouns, user).exc # "none"
        THEN convert_failure(pronouns, user)
    ELSE
        LET pronoun == pronouns[user["pronoun_id"]]
            they    == singular_they(pronouns, user)
            subject == IF they THEN "They" ELSE pronoun.subject
        IN  [exc |-> "none", status |-> 200,
             body |-> [user |-> user, pronoun |-> pronoun,
                       alt_pronoun |-> alt_pronoun(pronouns, user),
                       display |-> display(pronouns, user),
                       subject |-> subject,
                       subject_possessive |->
                           IF they THEN "They're" ELSE subject \o "'s",
                       object |-> IF they THEN "Them" ELSE pronoun.object]]

\* str.lower and str.upper on the texts the formatter can produce
str_lower(s) ==
    CASE s = "Any" -> "any"
      [] s = "Any's" -> "any's"
      [] s = "Any/Any" -> "any/any"
      [] s = "Any/He" -> "any/he"
      [] s = "Any/Other" -> "any/other"
      [] s = "Any/They" -> "any/they"
      [] s = "He" -> "he"
      [] s = "He's" -> "he's"
      [] s = "He/Any" -> "he/any"
      [] s = "He/He" -> "he/he"
      [] s = "He/Him" -> "he/him"
      [] s = "He/Other" -> "he/other"
      [] s = "He/They" -> "he/they"
      [] s = "Him" -> "him"
      [] s = "Other" -> "other"
      [] s = "Other's" -> "other's"
      [] s = "Other/Any" -> "other/any"
      [] s = "Other/He" -> "other/he"
      [] s = "Other/Other" -> "other/other"
      [] s = "Other/They" -> "other/they"
      [] s = "Them" -> "them"
      [] s = "They" -> "they"
      [] s = "They're" -> "they're"
      [] s = "They's" -> "they's"
      [] s = "They/Any" -> "they/any"
      [] s = "They/He" -> "they/he"
      [] s = "They/Other" -> "they/other"
      [] s = "They/Them" -> "they/them"
      [] s = "They/They" -> "they/they"

str_upper(s) ==
    CASE s = "Any" -> "ANY"
      [] s = "Any's" -> "ANY'S"
      [] s = "Any/Any" -> "ANY/ANY"
      [] s = "Any/He" -> "ANY/HE"
      [] s = "Any/Other" -> "ANY/OTHER"
      [] s = "Any/They" -> "ANY/THEY"
      [] s = "He" -> "HE"
      [] s = "He's" -> "HE'S"
      [] s = "He/Any" -> "HE/ANY"
      [] s = "He/He" -> "HE/HE"
      [] s = "He/Him" -> "HE/HIM"
      [] s = "He/Other" -> "HE/OTHER"
      [] s = "He/They" -> "HE/THEY"
      [] s = "Him" -> "HIM"
      [] s = "Other" -> "OTHER"
      [] s = "Other's" -> "OTHER'S"
      [] s = "Other/Any" -> "OTHER/ANY"
      [] s = "Other/He" -> "OTHER/HE"
      [] s = "Other/Other" -> "OTHER/OTHER"
      [] s = "Other/They" -> "OTHER/THEY"
      [] s = "Them" -> "THEM"
      [] s = "They" -> "THEY"
      [] s = "They're" -> "THEY'RE"
      [] s = "They's" -> "THEY'S"
      [] s = "They/Any" -> "THEY/ANY"
      [] s = "They/He" -> "THEY/HE"
      [] s = "They/Other" -> "THEY/OTHER"
      [] s = "They/Them" -> "THEY/THEM"
      [] s = "They/They" -> "THEY/THEY"

\* convert_json of mixitup_translator/pronouns.py: the same, and the case
\* variants of display, subject, subject_possessive and object
pronouns_convert_json(pronouns, user) ==
    IF convert_failure(pronouns, user).exc # "none"
        THEN convert_failure(pronouns, user)
    ELSE
        LET pronoun == pronouns[user["pronoun_id"]]
            they    == singular_they(pronouns, user)
            subject == IF they THEN "They" ELSE pronoun.subject
            subject_possessive == IF they THEN "They're" ELSE subject \o "'s"
            object  == IF they THEN "Them" ELSE pronoun.object
        IN  [exc |-> "none", status |-> 200,
             body |-> [user |-> user, pronoun |-> pronoun,
                       alt_pronoun |-> alt_pronoun(pronouns, user),
                       display |-> display(pronouns, user),
                       display_lower |-> str_lower(display(pronouns, user)),
                       display_upper |-> str_upper(display(pronouns, user)),
                       subject |-> subject,
                       subject_possessive |-> subject_possessive,
                       object |-> object,
                       subject_lower |-> str_lower(subject),
                       subject_possessive_lower |-> str_lower(subject_possessive),
                       object_lower |-> str_lower(object)]]

----------------------------------------------------------------------------
(* What the caller of fetch does with its outcome *)

\* Pronouns.get and Users.get_user: NoRefreshException is caught and the
\* cached data returned; get_user reads self.users[user.lower()] for it.
\* The tasks of lifespan and of the refresh routes end with their fetch.
OpAfter(o, op, outcome, us, hp) ==
    CASE outcome = "raise" /\ o \in GroupOps -> [op EXCEPT !.pc = "err"]
      [] o \in {"w", "x"} -> IdleOp
      [] outcome = "return" /\ o \in {"p", "u"} ->
            [op EXCEPT !.pc = "ret", !.val = hp[op.obj].data]
      [] outcome = "notdue" /\ o = "p" ->
            [op EXCEPT !.pc = "ret", !.val = hp[op.obj].data]
      [] outcome = "notdue" /\ o = "u" ->
            IF us[op.name] = 0
                THEN [op EXCEPT !.pc = "err"]
            ELSE [op EXCEPT !.pc = "ret", !.val = hp[us[op.name]].data]
      [] OTHER -> [op EXCEPT !.pc = "err"]

\* lifespan: the warm-up fetch, then create_task(flush_users()) and yield
AppAfter(o, outcome) ==
    IF o # "w" THEN app
    ELSE IF outcome = "return" THEN "serving" ELSE "failed"

SweeperAfter(o, outcome) ==
    IF o = "w" /\ outcome = "return"
        THEN [pc |-> "created", wake |-> 0, cancel |-> FALSE]
    ELSE sweeper

\* post_refresh_pronouns (both routes of that name): 425 with the
\* exception's text for NoRefreshException, the success text otherwise;
\* any other exception is the framework's 500
ResponseAfter(o, op, outcome, age) ==
    LET rsp == [NoResponse EXCEPT !.route = "refresh", !.key = op.name,
                                   !.sent = op.sent, !.recent = op.recent]
    IN  IF o # "x" THEN NoResponse
        ELSE CASE outcome = "return" -> [rsp EXCEPT !.status = 200]
               [] outcome = "notdue" ->
                    [rsp EXCEPT !.status = 425, !.exc = "NoRefreshException", !.age = age]
               [] outcome = "raise" ->
                    [rsp EXCEPT !.status = 500, !.exc = "UpstreamError"]
               [] OTHER -> NoResponse

\* a task runs from its start to the first suspension of fetch
Call(o, name, force, us, hp, obj) ==
    LET chk == should_refresh(hp[obj], force, now)
        op0 == [IdleOp EXCEPT !.force = force, !.obj = obj, !.name = name,
                              !.recent = (o = "x")]
        out == IF chk.ok THEN "net" ELSE "notdue"
    IN  /\ users' = us
        /\ ops' = [ops EXCEPT ![o] =
                IF chk.ok THEN [op0 EXCEPT !.pc = "net", !.sent = TRUE]
                ELSE OpAfter(o, op0, "notdue", us, hp)]
        /\ heap' = Collect(hp, us, ops')
        /\ app' = AppAfter(o, out)
        /\ sweeper' = SweeperAfter(o, out)
        /\ response' = ResponseAfter(o, op0, out, chk.age)

----------------------------------------------------------------------------
(* Initial state: the module-level PRONOUNS and USERS, nothing started *)

Init ==
    /\ now = 0
    /\ app = "starting"
    /\ sweeper = [pc |-> "none", wake |-> 0, cancel |-> FALSE]
    /\ heap = EmptyHeap
    /\ users = [k \in Keys |-> 0]
    /\ ops = [o \in OpIds |-> IdleOp]
    /\ group = "idle"
    /\ response = NoResponse

----------------------------------------------------------------------------
(* Actions *)

\* the clock moves on; the warm-up of lifespan is answered, and the sweeper
\* started, within the first minute
Tick ==
    /\ Serving
    /\ \E t \in Times :
        /\ t > now
        /\ now' = t
        /\ ops' = [o \in OpIds |->
                [ops[o] EXCEPT !.recent = @ /\ t - now < refresh_min]]
    /\ response' = NoResponse
    /\ UNCHANGED <<app, sweeper, heap, users, group>>

\* lifespan: await PRONOUNS.fetch()
Startup ==
    /\ app = "starting"
    /\ ops["w"].pc = "idle"
    /\ Call("w", "", FALSE, users, heap, PronId)
    /\ UNCHANGED <<now, group>>

\* session.get answers the request of task o
Respond(o) ==
    /\ ops[o].pc = "net"
    /\ \E status \in Statuses :
        LET i  == ops[o].obj
            r  == OnStatus(heap[i], status, now)
            hp == [heap EXCEPT ![i] = r.res]
        IN  /\ ops' = [ops EXCEPT ![o] =
                    CASE r.next = "json" -> [@ EXCEPT !.pc = "json"]
                      [] r.next = "return" -> [@ EXCEPT !.pc = "closing"]
                      [] OTHER -> OpAfter(o, @, "raise", users, hp)]
            /\ heap' = Collect(hp, users, ops')
            /\ app' = IF r.next = "raise" THEN AppAfter(o, "raise") ELSE app
            /\ response' = ResponseAfter(o, ops[o], r.next, 0)
    /\ UNCHANGED <<now, sweeper, users, group>>

\* resp.json() finishes for task o
Body(o) ==
    /\ ops[o].pc = "json"
    /\ \E body \in BodiesOf(ops[o].obj) :
        LET i  == ops[o].obj
            r  == OnBody(heap[i], body, now)
            hp == [heap EXCEPT ![i] = r.res]
        IN  /\ ops' = [ops EXCEPT ![o] =
                    IF r.next = "return" THEN [@ EXCEPT !.pc = "closing"]
                    ELSE OpAfter(o, @, "raise", users, hp)]
            /\ heap' = Collect(hp, users, ops')
            /\ app' = IF r.next = "raise" THEN AppAfter(o, "raise") ELSE app
            /\ response' = IF r.next = "raise" THEN ResponseAfter(o, ops[o], "raise", 0)
                           ELSE NoResponse
    /\ UNCHANGED <<now, sweeper, users, group>>

\* the two async with blocks of fetch are left and fetch returns to its caller
Close(o) ==
    /\ ops[o].pc = "closing"
    /\ ops' = [ops EXCEPT ![o] = OpAfter(o, @, "return", users, heap)]
    /\ app' = AppAfter(o, "return")
    /\ sweeper' = SweeperAfter(o, "return")
    /\ response' = ResponseAfter(o, ops[o], "return", 0)
    /\ heap' = Collect(heap, users, ops')
    /\ UNCHANGED <<now, users, group>>

\* flush_users runs up to its first asyncio.sleep(600)
SweeperStart ==
    /\ sweeper.pc = "created"
    /\ sweeper' = [sweeper EXCEPT !.pc = "sleeping", !.wake = now + sleep_interval]
    /\ response' = NoResponse
    /\ UNCHANGED <<now, app, heap, users, ops, group>>

\* the sleep is over: one pass of flush_users, and back to sleep
Sweep ==
    /\ sweeper.pc = "sleeping"
    /\ sleep_outcome(sweeper.cancel, now, sweeper.wake) = "pass"
    /\ users' = flush_pass(users, heap, now)
    /\ heap' = Collect(heap, users', ops)
    /\ sweeper' = [sweeper EXCEPT !.wake = now + sleep_interval]
    /\ response' = NoResponse
    /\ UNCHANGED <<now, app, ops, group>>

\* CancelledError arrives in the sleep: break, and the coroutine returns
SweeperExit ==
    /\ sweeper.pc = "sleeping"
    /\ sleep_outcome(sweeper.cancel, now, sweeper.wake) = "break"
    /\ sweeper' = [sweeper EXCEPT !.pc = "exited"]
    /\ response' = NoResponse
    /\ UNCHANGED <<now, app, heap, users, ops, group>>

\* lifespan after its yield, once the server has drained its requests:
\* task.cancel()
Shutdown ==
    /\ Serving
    /\ \A o \in OpIds : ops[o].pc = "idle"
    /\ sweeper' = [sweeper EXCEPT !.cancel = TRUE]
    /\ app' = "stopping"
    /\ response' = NoResponse
    /\ UNCHANGED <<now, heap, users, ops, group>>

\* lifespan: await task returns
ShutdownDone ==
    /\ app = "stopping"
    /\ sweeper.pc = "exited"
    /\ app' = "stopped"
    /\ response' = NoResponse
    /\ UNCHANGED <<now, sweeper, heap, users, ops, group>>

\* root: the TaskGroup creates its two tasks
LookupStart(name) ==
    /\ Serving
    /\ group = "idle"
    /\ group' = "running"
    /\ ops' = [ops EXCEPT !["p"] = [IdleOp EXCEPT !.pc = "new"],
                          !["u"] = [IdleOp EXCEPT !.pc = "new", !.name = name]]
    /\ response' = NoResponse
    /\ UNCHANGED <<now, app, sweeper, heap, users>>

\* the task of PRONOUNS.get() starts
GetStart ==
    /\ ops["p"].pc = "new"
    /\ Call("p", "", FALSE, users, heap, PronId)
    /\ UNCHANGED <<now, group>>

\* the task of USERS.get_user(user) starts
GetUserStart ==
    /\ ops["u"].pc = "new"
    /\ LET c == lookup_or_create(users, heap, ops["u"].name)
       IN  /\ c.obj # 0
           /\ Call("u", lower(ops["u"].name), FALSE, c.users, c.heap, c.obj)
    /\ UNCHANGED <<now, group>>

\* a group that notes the failure and lets the other task run on
GroupAbort_nocancel ==
    /\ group = "running"
    /\ \E o \in GroupOps : ops[o].pc = "err"
    /\ group' = "aborting"
    /\ response' = NoResponse
    /\ UNCHANGED <<now, app, sweeper, heap, users, ops>>

\* TaskGroup: a task has failed, the tasks still running are cancelled
GroupAbort ==
    /\ group = "running"
    /\ \E o \in GroupOps : ops[o].pc = "err"
    /\ group' = "aborting"
    /\ ops' = [o \in OpIds |->
            IF o \in GroupOps /\ Running(o)
                THEN [ops[o] EXCEPT !.pc = "cancelled"] ELSE ops[o]]
    /\ heap' = Collect(heap, users, ops')
    /\ response' = NoResponse
    /\ UNCHANGED <<now, app, sweeper, users>>

\* TaskGroup: every task is done; the group raises, or convert_json runs
LookupJoin ==
    /\ \A o \in GroupOps : Finished(o)
    /\ \/ /\ group = "aborting"
          /\ response' = [NoResponse EXCEPT !.route = "user", !.status = 500,
                                            !.exc = "ExceptionGroup"]
       \/ /\ group = "running"
          /\ \A o \in GroupOps : ops[o].pc = "ret"
          /\ LET c == convert_json(ops["p"].val, ops["u"].val)
             IN  response' = [NoResponse EXCEPT !.route = "user", !.status = c.status,
                                               !.exc = c.exc, !.body = c.body]
    /\ group' = "idle"
    /\ ops' = [ops EXCEPT !["p"] = IdleOp, !["u"] = IdleOp]
    /\ UNCHANGED <<now, app, sweeper, heap, users>>

\* POST /refresh/pronouns: PRONOUNS.fetch(force=True)
RefreshPronouns ==
    /\ Serving
    /\ ops["x"].pc = "idle"
    /\ Call("x", "pronouns", TRUE, users, heap, PronId)
    /\ UNCHANGED <<now, group>>

\* POST /refresh/user/{user}: USERS.fetch_user(user, force=True)
RefreshUser(name) ==
    /\ Serving
    /\ ops["x"].pc = "idle"
    /\ LET c == lookup_or_create(users, heap, name)
       IN  /\ c.obj # 0
           /\ Call("x", lower(name), TRUE, c.users, c.heap, c.obj)
    /\ UNCHANGED <<now, group>>

Next ==
    \/ Tick
    \/ Startup
    \/ \E o \in OpIds : Respond(o)
    \/ \E o \in OpIds : Body(o)
    \/ \E o \in OpIds : Close(o)
    \/ SweeperStart
    \/ Sweep
    \/ SweeperExit
    \/ Shutdown
    \/ ShutdownDone
    \/ \E name \in LookupNames : LookupStart(name)
    \/ GetStart
    \/ GetUserStart
    \/ GroupAbort
    \/ LookupJoin
    \/ RefreshPronouns
    \/ \E name \in RefreshNames : RefreshUser(name)

Spec == Init /\ [][Next]_vars

\* The service while it serves.  The state after a warm-up that got the
\* dictionary at once: lifespan has yielded and flush_users is in its first sleep.
\* a dictionary without the override of refresh_max
Warmed_hourly(t) ==
    [NewPronouns EXCEPT !.data = example_pronouns, !.last_refreshed = t,
                        !.refresh_max = refresh_max]

Warmed(t) ==
    [NewPronouns EXCEPT !.data = example_pronouns, !.last_refreshed = t]

InitServing ==
    /\ now = 0
    /\ app = "serving"
    /\ sweeper = [pc |-> "sleeping", wake |-> sleep_interval, cancel |-> FALSE]
    /\ heap = [EmptyHeap EXCEPT ![PronId] = Warmed(0)]
    /\ users = [k \in Keys |-> 0]
    /\ ops = [o \in OpIds |-> IdleOp]
    /\ group = "idle"
    /\ response = NoResponse

\* the lookups, the forced refreshes of users and the sweeps
NextUsers ==
    \/ Tick
    \/ \E o \in OpIds : Respond(o)
    \/ \E o \in OpIds : Body(o)
    \/ \E o \in OpIds : Close(o)
    \/ Sweep
    \/ \E name \in LookupNames : LookupStart(name)
    \/ GetStart
    \/ GetUserStart
    \/ GroupAbort
    \/ LookupJoin
    \/ \E name \in RefreshNames : RefreshUser(name)

SpecUsers == InitServing /\ [][NextUsers]_vars

\* the two refresh routes and the sweeps
NextRefresh ==
    \/ Tick
    \/ \E o \in OpIds : Respond(o)
    \/ \E o \in OpIds : Body(o)
    \/ \E o \in OpIds : Close(o)
    \/ Sweep
    \/ RefreshPronouns
    \/ \E name \in RefreshNames : RefreshUser(name)

SpecRefresh == InitServing /\ [][NextRefresh]_vars

\* The lookups of a service that has run for six hours: the dictionary of the
\* warm-up is about to go stale, and the user cache has been swept empty.
InitAged ==
    /\ now = 0
    /\ app = "serving"
    /\ sweeper = [pc |-> "sleeping", wake |-> sleep_interval, cancel |-> FALSE]
    /\ heap = [EmptyHeap EXCEPT ![PronId] = Warmed(0 - Pronouns_refresh_max)]
    /\ users = [k \in Keys |-> 0]
    /\ ops = [o \in OpIds |-> IdleOp]
    /\ group = "idle"
    /\ response = NoResponse

NextLookup ==
    \/ Tick
    \/ \E o \in OpIds : Respond(o)
    \/ \E o \in OpIds : Body(o)
    \/ \E o \in OpIds : Close(o)
    \/ \E name \in LookupNames : LookupStart(name)
    \/ GetStart
    \/ GetUserStart
    \/ GroupAbort
    \/ LookupJoin

SpecLookup == InitAged /\ [][NextLookup]_vars

\* The life of the process: start-up, the sweeper, forced refreshes that fill
\* the cache, shutdown.  The event loop runs every callback that is ready, so
\* the cancelled sweeper and the lifespan waiting for it get their steps.
NextLife ==
    \/ Tick
    \/ Startup
    \/ \E o \in OpIds : Respond(o)
    \/ \E o \in OpIds : Body(o)
    \/ \E o \in OpIds : Close(o)
    \/ SweeperStart
    \/ Sweep
    \/ SweeperExit
    \/ Shutdown
    \/ ShutdownDone
    \/ \E name \in RefreshNames : RefreshUser(name)

SpecLife ==
    /\ Init
    /\ [][NextLife]_vars
    /\ WF_vars(SweeperExit)
    /\ WF_vars(ShutdownDone)

\* The formatter on its own: a lookup whose two tasks have returned a
\* dictionary and a user record; the route calls convert_json of main.py, a
\* user of the package calls convert_json of mixitup_translator/pronouns.py.
PackageConvert ==
    /\ group = "running"
    /\ \A o \in GroupOps : ops[o].pc = "ret"
    /\ LET c == pronouns_convert_json(ops["p"].val, ops["u"].val)
       IN  response' = [NoResponse EXCEPT !.route = "convert", !.status = c.status,
                                         !.exc = c.exc, !.body = c.body]
    /\ UNCHANGED <<now, app, sweeper, heap, users, ops, group>>

InitConvert ==
    /\ now = 0
    /\ app = "serving"
    /\ sweeper = [pc |-> "sleeping", wake |-> sleep_interval, cancel |-> FALSE]
    /\ users = [k \in Keys |-> 0]
    /\ group = "running"
    /\ response = NoResponse
    /\ \E d \in ConvertDicts, u \in ConvertUsers :
        /\ heap = [EmptyHeap EXCEPT ![PronId] = [Warmed(0) EXCEPT !.data = d]]
        /\ ops = [o \in OpIds |->
                CASE o = "p" -> [IdleOp EXCEPT !.pc = "ret", !.obj = PronId, !.val = d]
                  [] o = "u" -> [IdleOp EXCEPT !.pc = "ret", !.name = "bob", !.val = u]
                  [] OTHER -> IdleOp]

NextConvert ==
    \/ LookupJoin
    \/ PackageConvert

SpecConvert == InitConvert /\ [][NextConvert]_vars

----------------------------------------------------------------------------
(* Properties *)

IsObject(r) == r.url # ""

\* the step in which task o makes its call of fetch
Called(o) ==
    \/ o \in GroupOps /\ ops[o].pc = "new" /\ ops'[o].pc \notin {"new", "cancelled"}
    \/ o = "x" /\ ops[o].pc = "idle"
                /\ (ops'[o].pc = "net" \/ response'.route = "refresh")
    \/ o = "w" /\ ops[o].pc = "idle" /\ app = "starting"
                /\ (ops'[o].pc = "net" \/ app' # "starting")

\* the resource that call is made on, as the step leaves it
CalledKey(o) ==
    IF o = "u" THEN lower(ops[o].name)
    ELSE IF ops'[o].pc = "net" THEN ops'[o].name
    ELSE response'.key

CalledObj(o) ==
    IF o \in {"p", "w"} \/ CalledKey(o) = "pronouns" THEN PronId
    ELSE users'[CalledKey(o)]

\* the step in which the fetch of task o fails with an upstream error
Failed(o) ==
    /\ ops[o].pc \in {"net", "json"}
    /\ \/ o \in GroupOps /\ ops'[o].pc = "err"
       \/ o = "x" /\ response'.route = "refresh" /\ response'.status = 500
       \/ o = "w" /\ app' = "failed"

\* C1: a call of fetch is eligible (it goes on to the upstream) exactly when
\* age > refresh_max, or force and age > refresh_min; otherwise
\* NoRefreshException is raised with the age: the refresh routes answer 425 with
\* it, get and get_user return the cached data without a request.  An age above
\* refresh_max is eligible whatever force is; with force no age below
\* refresh_min is.
C1_ShouldRefresh ==
    [][\A o \in OpIds : Called(o) =>
        LET r        == heap'[CalledObj(o)]
            age      == now - r.last_refreshed
            force    == (o = "x")
            eligible == age > r.refresh_max \/ (force /\ age > refresh_min)
        IN  /\ (ops'[o].pc = "net") <=> eligible
            /\ (~eligible /\ o = "x") =>
                    /\ response'.exc = "NoRefreshException"
                    /\ response'.status = 425
                    /\ response'.age = age
            /\ (~eligible /\ o \in GroupOps) =>
                    ops'[o].pc = "ret" /\ ~ops'[o].sent
            /\ age > r.refresh_max => ops'[o].pc = "net"
            /\ (force /\ age < refresh_min) => ops'[o].pc # "net"
    ]_vars

\* a forced refresh refused exactly at the cooldown
C1_Witness ==
    /\ response.exc = "NoRefreshException"
    /\ response.age = refresh_min

\* C2: data and last_refreshed of a resource change only together, in the one
\* step in which a fetch of that resource completes: no state shows one of the
\* two fields updated without the other.
C2_FetchAtomic ==
    /\ [](\A i \in Slots : heap[i].data = EmptyData <=> heap[i].last_refreshed = Epoch)
    /\ [][\A i \in Slots :
            (IsObject(heap[i]) /\ IsObject(heap'[i]) /\ heap'[i] # heap[i]) =>
                \E o \in OpIds :
                    /\ ops[o].obj = i
                    /\ ops[o].pc \in {"net", "json"}
                    /\ ops'[o].pc = "closing"
                    /\ heap'[i].last_refreshed = now
                    /\ heap'[i].data \in
                            IF ops[o].pc = "net" THEN {E404}
                            ELSE {b.json : b \in {c \in BodiesOf(i) : c.ok}}
                    /\ heap'[i] = [heap[i] EXCEPT !.data = heap'[i].data,
                                                  !.last_refreshed = now]
       ]_vars

\* one fetch of a per-user resource has written while another is in flight
C2_Witness ==
    \E o1, o2 \in OpIds :
        /\ ops[o1].pc = "closing"
        /\ ops[o2].pc \in {"net", "json"}
        /\ ops[o1].obj = ops[o2].obj
        /\ ops[o1].obj # PronId
        /\ heap[ops[o1].obj].last_refreshed = now

SecondRefresh ==
    /\ response.route = "refresh"
    /\ response.recent
    /\ Called("x")
    /\ CalledKey("x") = response.key

\* the second call is refused: 425 with the age, nothing sent upstream
Refused ==
    /\ response'.status = 425
    /\ response'.exc = "NoRefreshException"
    /\ response'.age = now - heap'[CalledObj("x")].last_refreshed
    /\ response'.age <= refresh_min
    /\ ~response'.sent
    /\ ops'["x"].pc = "idle"

\* C4 as stated: whenever a forced refresh is called twice on the same resource
\* with less than refresh_min between the calls, the second is refused.
C4_Original ==
    [][SecondRefresh => Refused]_vars

\* C4: a forced refresh called on a resource whose last_refreshed is at most
\* refresh_min old (a fetch of that same resource object completed with 200 or
\* 404 no longer ago) raises NoRefreshException with the age, is answered 425
\* and sends no request.
C4_RefusedWithinCooldown ==
    [][(Called("x") /\ now - heap'[CalledObj("x")].last_refreshed <= refresh_min)
            => Refused]_vars

\* a forced refresh refused less than refresh_min after the resource was stamped
C4_Witness ==
    /\ response.route = "refresh"
    /\ response.key \in Keys
    /\ response.status = 425
    /\ response.age < refresh_min
    /\ ~response.sent

\* C5: get_user never returns the empty default payload: what it returns is a
\* fetched record or the sentinel of a 404.
C5_NeverEmpty ==
    ops["u"].pc = "ret" => ops["u"].val \in UserBodies \cup {E404}

\* get_user has returned a record it had to fetch first
C5_Witness ==
    /\ ops["u"].pc = "ret"
    /\ ops["u"].sent
    /\ ops["u"].val \in UserBodies

Registered(i) == \E k \in Keys : users[k] = i

BeingFetched(i) == \E o \in OpIds : ops[o].obj = i /\ ops[o].pc \in {"net", "json"}

\* C6 as stated: among the per-user resources that are registered or still
\* being fetched, no two are for the same lowercased username.
C6_Original ==
    \A i, j \in Slots \ {PronId} :
        ( /\ IsObject(heap[i]) /\ IsObject(heap[j])
          /\ Registered(i) \/ BeingFetched(i)
          /\ Registered(j) \/ BeingFetched(j)
          /\ heap[i].url = heap[j].url ) => i = j

\* the step in which the fetch of task o is answered 404
Answered404(o) ==
    ops[o].pc = "net" /\ ops'[o].pc = "closing"

\* a fetch answered 404 sets data to the sentinel, stamps last_refreshed with
\* the time of the answer and returns normally
NotFoundStamped ==
    [][\A o \in OpIds : Answered404(o) =>
            /\ heap'[ops[o].obj] = [heap[ops[o].obj] EXCEPT !.data = E404,
                                                          !.last_refreshed = now]
            /\ Close(o) =>
                    /\ o = "u" => ops'[o].pc = "ret" /\ ops'[o].val = E404
                    /\ o = "x" => response'.status = 200
    ]_vars

\* a resource of user k holds a sentinel stamped at most refresh_max ago
SentinelOf(k) ==
    {i \in Slots \ {PronId} :
        /\ IsObject(heap[i])
        /\ heap[i].url = k
        /\ heap[i].data = E404
        /\ now - heap[i].last_refreshed <= refresh_max}

\* C7 as stated: a fetch answered 404 stamps the sentinel, and from then on,
\* until refresh_max has elapsed, every get_user for that user returns the
\* sentinel without a request to the upstream.
C7_Original ==
    /\ NotFoundStamped
    /\ [][(Called("u") /\ SentinelOf(CalledKey("u")) # {}) =>
                /\ ops'["u"].pc = "ret"
                /\ ops'["u"].val = E404
                /\ ~ops'["u"].sent
       ]_vars

\* what holds of the code: a get_user that finds the sentinel still registered
\* returns it without a request
SentinelServedWhileRegistered ==
    [][(Called("u") /\ users[CalledKey("u")] \in SentinelOf(CalledKey("u"))) =>
                /\ ops'["u"].pc = "ret"
                /\ ops'["u"].val = E404
                /\ ~ops'["u"].sent
                /\ heap'[users[CalledKey("u")]] = heap[users[CalledKey("u")]]
    ]_vars

\* get_user has served the sentinel from the cache, exactly refresh_max after
\* it was stamped
SentinelServedAtLimit ==
    /\ ops["u"].pc = "ret"
    /\ ops["u"].val = E404
    /\ ~ops["u"].sent
    /\ now - heap[ops["u"].obj].last_refreshed = refresh_max

\* the step in which flush_users runs one pass
SweepStep ==
    sweeper.pc = "sleeping" /\ sweeper'.pc = "sleeping" /\ sweeper'.wake # sweeper.wake

\* C8: a pass of flush_users deletes exactly the keys whose resource has
\* last_refreshed < now - refresh_max, leaves every other entry and its
\* resource as they were, and a second pass right after it deletes nothing.
C8_SweepExact ==
    [][SweepStep =>
        /\ \A k \in Keys :
              IF users[k] # 0 /\ heap[users[k]].last_refreshed < now - refresh_max
                  THEN users'[k] = 0
              ELSE /\ users'[k] = users[k]
                   /\ users[k] # 0 => heap'[users[k]] = heap[users[k]]
        /\ flush_pass(users', heap', now) = users'
    ]_vars

\* a pass has run: it kept an entry exactly refresh_max old and deleted the
\* entry of a resource that is still being fetched
C8_Witness ==
    /\ sweeper.wake = now + sleep_interval
    /\ now > 0
    /\ \E k \in Keys : users[k] # 0
                        /\ heap[users[k]].last_refreshed = now - refresh_max
    /\ \E i \in Slots \ {PronId} : BeingFetched(i) /\ ~Registered(i)

\* the step in which the lookup route answers
JoinStep == response'.route = "user"

BothReturned == \A o \in GroupOps : ops[o].pc = "ret"

\* C9: the lookup route answers only when both tasks are done; convert_json
\* runs, on what the two tasks returned, exactly when both returned; when one
\* of them failed the answer is the failure (500, no body), convert_json is
\* not run, and the other task, if it was still running when the failure was
\* noticed, has been cancelled.
C9_FormatterAfterBoth ==
    /\ [][JoinStep =>
            /\ \A o \in GroupOps : Finished(o)
            /\ BothReturned <=> response'.exc # "ExceptionGroup"
            /\ BothReturned =>
                    LET c == convert_json(ops["p"].val, ops["u"].val)
                    IN  /\ response'.status = c.status
                        /\ response'.exc = c.exc
                        /\ response'.body = c.body
            /\ ~BothReturned =>
                    /\ \E o \in GroupOps : ops[o].pc = "err"
                    /\ response'.status = 500
                    /\ response'.body = NoVal
       ]_vars
    /\ [][(group = "running" /\ group' = "aborting") =>
            \A o \in GroupOps :
                /\ Running(o) => ops'[o].pc = "cancelled"
                /\ ~Running(o) => ops'[o] = ops[o]
       ]_vars
    /\ [][\A o \in GroupOps :
            (ops[o].pc = "cancelled" /\ ~JoinStep) =>
                /\ ops'[o] = ops[o]
                /\ group' = "aborting"
       ]_vars

\* one task of a lookup has failed and the other has been cancelled in flight
C9_Witness ==
    /\ group = "aborting"
    /\ \E o1, o2 \in GroupOps :
        /\ ops[o1].pc = "err"
        /\ ops[o2].pc = "cancelled"
        /\ ops[o2].sent

\* C10: once the sweeper is cancelled it leaves its loop and returns normally,
\* so that the lifespan awaiting it finishes; from the cancellation on no entry
\* is removed from the cache, not even by a pass that was already due.
C10_SweeperStops ==
    /\ sweeper.cancel ~> (sweeper.pc = "exited" /\ app = "stopped")
    /\ [][sweeper.cancel =>
            /\ \A k \in Keys : users[k] # 0 => users'[k] = users[k]
            /\ sweeper'.pc \in {"sleeping", "exited"}
            /\ sweeper'.wake = sweeper.wake
       ]_vars
    /\ [](app = "stopped" => sweeper.pc = "exited")

\* shutdown has completed although a pass with something to delete was due
C10_Witness ==
    /\ app = "stopped"
    /\ sweeper.pc = "exited"
    /\ now >= sweeper.wake
    /\ to_clear(users, heap, now) # {}

\* C11: Pronouns.get never fails with NoRefreshException: while the age of the
\* dictionary is at most six hours it sends no request and returns the cached
\* data, leaving the dictionary as it was; once the age exceeds six hours it
\* sends an unforced fetch and returns what that fetch stored.
C11_DictionaryGet ==
    /\ [][Called("p") =>
            LET r   == heap[PronId]
                age == now - r.last_refreshed
            IN  /\ ops'["p"].pc \in {"ret", "net"}
                /\ age <= Pronouns_refresh_max =>
                        /\ ops'["p"].pc = "ret"
                        /\ ops'["p"].val = r.data
                        /\ ~ops'["p"].sent
                        /\ heap'[PronId] = r
                /\ age > Pronouns_refresh_max =>
                        /\ ops'["p"].pc = "net"
                        /\ ops'["p"].sent
                        /\ ~ops'["p"].force
       ]_vars
    /\ [][(ops["p"].pc \in {"net", "json"} /\ ops'["p"].pc = "closing") =>
            heap'[PronId].last_refreshed = now
       ]_vars
    /\ [][(ops["p"].pc = "closing" /\ ops'["p"].pc # "closing") =>
            \/ ops'["p"].pc = "ret" /\ ops'["p"].val = heap[PronId].data
            \/ ops'["p"].pc = "cancelled"
       ]_vars

\* get has served the dictionary from the cache at an age of exactly six hours
C11_Witness ==
    /\ ops["p"].pc = "ret"
    /\ ~ops["p"].sent
    /\ ops["p"].val = example_pronouns
    /\ now - heap[PronId].last_refreshed = Pronouns_refresh_max

\* the step in which a formatter is applied to what the two tasks returned,
\* and the step in which it returns a response document
Answered == response'.route \in {"user", "convert"} /\ BothReturned

Formatted == Answered /\ response'.status = 200

\* C12 as stated: display is pronoun.subject when the primary pronoun is
\* singular, otherwise subject/alt_pronoun.subject when alt_pronoun_id is not
\* null, otherwise subject/object.
C12_Original ==
    [][Formatted =>
        LET d   == ops["p"].val
            u   == ops["u"].val
            pr  == d[u.pronoun_id]
            alt == u.alt_pronoun_id
        IN  IF pr.singular THEN response'.body.display = pr.subject
            ELSE IF alt # None
                THEN /\ alt \in DOMAIN d
                     /\ response'.body.display = pr.subject \o "/" \o d[alt].subject
            ELSE response'.body.display = pr.subject \o "/" \o pr.object
    ]_vars

\* C12: display is pronoun.subject when the primary pronoun is singular,
\* otherwise subject/alt_pronoun.subject when alt_pronoun_id is neither null
\* nor empty, otherwise subject/object.
C12_DisplayRule ==
    [][Formatted =>
        LET d   == ops["p"].val
            u   == ops["u"].val
            pr  == d[u.pronoun_id]
            alt == u.alt_pronoun_id
        IN  IF pr.singular THEN response'.body.display = pr.subject
            ELSE IF alt # None /\ alt # ""
                THEN /\ alt \in DOMAIN d
                     /\ response'.body.display = pr.subject \o "/" \o d[alt].subject
            ELSE response'.body.display = pr.subject \o "/" \o pr.object
    ]_vars

\* a record with an empty alt_pronoun_id has been given the display He/Him
C12_Witness ==
    /\ response.status = 200
    /\ response.body.user.pronoun_id = "hehim"
    /\ response.body.user.alt_pronoun_id = ""
    /\ response.body.display = "He/Him"

\* C13: subject, subject_possessive and object are They, They're and Them
\* exactly when the primary pronoun is singular or pronoun_id is "theythem";
\* otherwise they are pronoun.subject, that subject followed by 's, and
\* pronoun.object.
C13_SubjectRule ==
    [][Formatted =>
        LET d    == ops["p"].val
            u    == ops["u"].val
            pr   == d[u.pronoun_id]
            b    == response'.body
            they == b.subject = "They" /\ b.subject_possessive = "They're"
                        /\ b.object = "Them"
        IN  IF pr.singular \/ u.pronoun_id = "theythem" THEN they
            ELSE /\ ~they
                 /\ b.subject = pr.subject
                 /\ b.subject_possessive = pr.subject \o "'s"
                 /\ b.object = pr.object
    ]_vars

\* the override has been applied to a singular pronoun other than theythem
C13_Witness ==
    /\ response.status = 200
    /\ response.body.user.pronoun_id = "any"
    /\ response.body.subject = "They"
    /\ response.body.subject_possessive = "They're"

\* C14 as stated: every response document of a formatter, that of the lookup
\* route included, carries display_lower and display_upper, the lower and
\* upper case of display, and subject_lower, subject_possessive_lower and
\* object_lower, the lower case of subject, subject_possessive and object.
C14_Original ==
    (response.route \in {"user", "convert"} /\ response.status = 200) =>
        LET b == response.body
        IN  /\ {"display_lower", "display_upper", "subject_lower",
                "subject_possessive_lower", "object_lower"} \subseteq DOMAIN b
            /\ b.display_lower = str_lower(b.display)
            /\ b.display_upper = str_upper(b.display)
            /\ b.subject_lower = str_lower(b.subject)
            /\ b.subject_possessive_lower = str_lower(b.subject_possessive)
            /\ b.object_lower = str_lower(b.object)

\* what holds of the code: the formatter of mixitup_translator/pronouns.py
\* derives the five case variants
PackageCaseVariants ==
    (response.route = "convert" /\ response.status = 200) =>
        LET b == response.body
        IN  /\ b.display_lower = str_lower(b.display)
            /\ b.display_upper = str_upper(b.display)
            /\ b.subject_lower = str_lower(b.subject)
            /\ b.subject_possessive_lower = str_lower(b.subject_possessive)
            /\ b.object_lower = str_lower(b.object)

\* C15: applied to the sentinel a formatter raises HTTPException(404) and
\* returns no document, whatever the dictionary; a lookup whose get_user
\* returned the sentinel, fetched by this request or served from the cache, is
\* answered 404.
C15_NotFound ==
    /\ [](\A d \in ConvertDicts :
            /\ convert_json(d, E404) =
                    [exc |-> "HTTPException", status |-> 404, body |-> NoVal]
            /\ pronouns_convert_json(d, E404) =
                    [exc |-> "HTTPException", status |-> 404, body |-> NoVal])
    /\ [][(Answered /\ ops["u"].val = E404) =>
            /\ response'.status = 404
            /\ response'.exc = "HTTPException"
            /\ response'.body = NoVal
       ]_vars

\* a lookup has been answered 404 for a user whose sentinel was cached earlier
C15_Witness ==
    /\ response.route = "user"
    /\ response.status = 404
    /\ \E k \in Keys :
        /\ users[k] # 0
        /\ heap[users[k]].data = E404
        /\ heap[users[k]].last_refreshed < now

\* C16 as stated: when pronoun_id, or an alt_pronoun_id that is not null, is
\* not a key of the dictionary, the formatter fails and returns no document.
C16_Original ==
    [][(Answered /\ "error" \notin DOMAIN ops["u"].val) =>
        LET d   == ops["p"].val
            u   == ops["u"].val
            alt == u.alt_pronoun_id
        IN  (u.pronoun_id \notin DOMAIN d \/ (alt # None /\ alt \notin DOMAIN d)) =>
                /\ response'.exc = "KeyError"
                /\ response'.status = 500
                /\ response'.body = NoVal
    ]_vars

\* C16: when pronoun_id, or an alt_pronoun_id that is neither null nor empty,
\* is not a key of the dictionary, the formatter fails with KeyError and
\* returns no document; a document it does return holds the dictionary's
\* definitions of the ids, and None for a null or empty alt_pronoun_id.
C16_UnknownIdFails ==
    [][(Answered /\ "error" \notin DOMAIN ops["u"].val) =>
        LET d   == ops["p"].val
            u   == ops["u"].val
            alt == u.alt_pronoun_id
        IN  IF u.pronoun_id \notin DOMAIN d
                   \/ (alt # None /\ alt # "" /\ alt \notin DOMAIN d)
                THEN /\ response'.exc = "KeyError"
                     /\ response'.status = 500
                     /\ response'.body = NoVal
            ELSE /\ response'.status = 200
                 /\ response'.body.pronoun = d[u.pronoun_id]
                 /\ response'.body.alt_pronoun =
                        IF alt # None /\ alt # "" THEN d[alt] ELSE Null
    ]_vars

\* the formatter has failed on an unknown alt_pronoun_id of a record whose
\* pronoun_id the dictionary knows
C16_Witness ==
    /\ response.route = "convert"
    /\ response.exc = "KeyError"
    /\ ops["u"].val.pronoun_id \in DOMAIN ops["p"].val
    /\ ops["u"].val.alt_pronoun_id \notin DOMAIN ops["p"].val

\* C17: when the fetch_user of get_user raises NoRefreshException, the cache
\* holds an entry for the lowercased name at the moment get_user reads it: the
\* fallback never raises KeyError, with the sweeper running alongside, and
\* get_user returns the data of the registered resource.
C17_FallbackFindsEntry ==
    [][Called("u") =>
        /\ users'[CalledKey("u")] # 0
        /\ ops'["u"].pc \in {"net", "ret"}
        /\ ops'["u"].pc = "ret" =>
                /\ ~ops'["u"].sent
                /\ ops'["u"].val = heap'[users'[CalledKey("u")]].data
    ]_vars

\* get_user has fallen back to the cache although a pass of the sweeper is due
C17_Witness ==
    /\ ops["u"].pc = "ret"
    /\ ~ops["u"].sent
    /\ now >= sweeper.wake
    /\ now > sleep_interval

\* the step in which the fetch_user of task o returns its resource
FetchUserReturns(o) ==
    /\ o \in {"u", "x"}
    /\ ops[o].name \in Keys
    /\ ops[o].pc = "closing"
    /\ ops'[o].pc \notin {"closing", "cancelled"}

\* C18 as stated: whenever fetch_user returns, the cache maps the lowercased
\* name to the very resource that was fetched, and that resource holds fetched
\* data and the time stamp of a fetch; a pass of the sweeper that runs while
\* the fetch is suspended does not take the entry away.
C18_Original ==
    [][\A o \in OpIds : FetchUserReturns(o) =>
        /\ users[ops[o].name] = ops[o].obj
        /\ heap[ops[o].obj].data \in UserBodies \cup {E404}
        /\ heap[ops[o].obj].last_refreshed # Epoch
    ]_vars

\* what holds of the code: the resource fetch_user returns holds fetched data
\* and the time stamp of a fetch, registered or not
ReturnedResourceFetched ==
    [][\A o \in OpIds : FetchUserReturns(o) =>
        /\ heap[ops[o].obj].data \in UserBodies \cup {E404}
        /\ heap[ops[o].obj].last_refreshed # Epoch
        /\ heap[ops[o].obj].last_refreshed <= now
    ]_vars

\* the step in which task o sends a GET to the upstream
Issued(o) == ops[o].pc # "net" /\ ops'[o].pc = "net"

\* a GET for the url of resource r is in flight
InFlight(r) ==
    \E o \in OpIds : ops[o].pc \in {"net", "json"} /\ heap[ops[o].obj].url = r.url

\* C19 as stated: no GET is sent for a url while an earlier GET for it is
\* still in flight, nor by a forced refresh that follows, within refresh_min,
\* a refresh of the same resource that has just failed.
C19_Original ==
    [][\A o \in OpIds : Issued(o) =>
        /\ ~InFlight(heap'[ops'[o].obj])
        /\ ~(/\ o = "x"
              /\ response.route = "refresh"
              /\ response.status = 500
              /\ response.recent
              /\ response.key = ops'[o].name)
    ]_vars

\* C19: a GET is sent for a resource only when the last fetch of that resource
\* object that completed (with 200 or 404) did so more than refresh_min
\* before, and more than the resource's refresh_max before when the call is
\* not forced.
C19_SpacedAfterSuccess ==
    [][\A o \in OpIds : Issued(o) =>
        LET r == heap'[ops'[o].obj]
        IN  /\ now - r.last_refreshed > refresh_min
            /\ ~ops'[o].force => now - r.last_refreshed > r.refresh_max
    ]_vars

\* a forced refresh has sent a GET for a resource that was fetched before and
\* is not stale yet
C19_Witness ==
    /\ ops["x"].pc = "net"
    /\ ops["x"].force
    /\ heap[ops["x"].obj].last_refreshed # Epoch
    /\ now - heap[ops["x"].obj].last_refreshed > refresh_min
    /\ now - heap[ops["x"].obj].last_refreshed <= refresh_max

\* C20 as stated: once the warm-up has succeeded, the cached data of the
\* pronoun dictionary is at all times a map from pronoun id to definition
\* record, whatever the later fetches are answered.  Violated: fetch stores
\* the sentinel on a 404 for the dictionary as for any other resource.
C20_Original ==
    app = "serving" => heap[PronId].data \in DictBodies

====
